---- MODULE Spec2Model ----
(***************************************************************************)
(* Model of dashboard.py: the survey dashboard script.                     *)
(*                                                                         *)
(* Strings are sequences of one-character strings, so that str.split,      *)
(* str.contains and the ordering of labels are computed, not assumed.      *)
(* A missing cell (NaN: an empty CSV field) is the empty sequence; the     *)
(* CSV reader never yields an empty string as a value.                     *)
(* A percentage is the exact rational num/den of count / total * 100.      *)
(***************************************************************************)
EXTENDS Integers, Sequences, FiniteSets, TLC

VARIABLES
    df,                 \* the Response Table: a sequence of rows
    selected_question,  \* raw column name chosen in the first dropdown
    selected_bar,       \* value chosen in the filter dropdown
    series,             \* main-chart series (lines 94-98)
    main_counts,        \* main-chart table (lines 100-104)
    unique_options,     \* options offered by the filter dropdown
    filtered_df,        \* the filtered subset (lines 144-149)
    counts,             \* City chart table (line 183)
    arg_series,         \* prepare_counts: argument series
    arg_min_count,      \* prepare_counts: argument min_count
    ret_counts,         \* prepare_counts: returned table
    agg_pc              \* "ready" | "returned" | "sorted"

dash_vars == <<df, selected_question, selected_bar, series, main_counts,
               unique_options, filtered_df, counts>>
agg_vars == <<arg_series, arg_min_count, ret_counts, agg_pc>>
vars == <<df, selected_question, selected_bar, series, main_counts,
          unique_options, filtered_df, counts,
          arg_series, arg_min_count, ret_counts, agg_pc>>

-----------------------------------------------------------------------------
(* Bounds *)

\* longest series handed to prepare_counts (besides the documented example)
MaxLen == 5
\* thresholds 1..MaxMinCount are tried besides the default
MaxMinCount == 3
\* most respondents in the Response Table
MaxRows == 2

\* prepare_counts(series, min_count=5)
DefaultMinCount == 5

-----------------------------------------------------------------------------
(* Strings *)

NaN == << >>
OtherLabel == <<"O", "t", "h", "e", "r">>
AllChoice == <<"A", "l", "l">>
DELIM == <<",", " ">>
sA == <<"A">>
sB == <<"B">>
sC == <<"C">>
sX == <<"X">>
sXY == <<"X", "Y">>

\* Unicode code point of a character: Python orders str by code points
Code(c) ==
    CASE c = " " -> 32 [] c = "," -> 44
      [] c = "A" -> 65 [] c = "B" -> 66 [] c = "C" -> 67 [] c = "O" -> 79
      [] c = "X" -> 88 [] c = "Y" -> 89
      [] c = "e" -> 101 [] c = "h" -> 104 [] c = "l" -> 108
      [] c = "r" -> 114 [] c = "t" -> 116

RECURSIVE StrLess(_, _)
\* a < b for Python str
StrLess(a, b) ==
    IF b = << >> THEN FALSE
    ELSE IF a = << >> THEN TRUE
    ELSE IF Code(Head(a)) # Code(Head(b)) THEN Code(Head(a)) < Code(Head(b))
    ELSE StrLess(Tail(a), Tail(b))

\* s[i:] starts with p
StartsAt(s, i, p) ==
    /\ i + Len(p) - 1 <= Len(s)
    /\ \A k \in 1..Len(p) : s[i + k - 1] = p[k]

RECURSIVE SplitFrom(_, _, _, _)
\* str.split(sep): cut at each occurrence of sep, left to right
SplitFrom(s, sep, i, cur) ==
    IF i > Len(s) THEN <<cur>>
    ELSE IF StartsAt(s, i, sep)
         THEN <<cur>> \o SplitFrom(s, sep, i + Len(sep), << >>)
         ELSE SplitFrom(s, sep, i + 1, Append(cur, s[i]))

str_split(s, sep) == SplitFrom(s, sep, 1, << >>)

\* str.contains(pat, na=False) for a pattern without regex metacharacters:
\* re.search finds pat anywhere in the cell; a missing cell gives False
str_contains(s, pat) ==
    /\ s # NaN
    /\ \E i \in 1..(Len(s) + 1) : StartsAt(s, i, pat)

RECURSIVE Join(_, _)
\* sep.join(parts): how the survey export writes a multi-select answer
Join(parts, sep) ==
    IF Len(parts) = 0 THEN << >>
    ELSE IF Len(parts) = 1 THEN parts[1]
    ELSE parts[1] \o sep \o Join(Tail(parts), sep)

-----------------------------------------------------------------------------
(* Series and tables *)

RECURSIVE SeqSum(_)
SeqSum(s) == IF s = << >> THEN 0 ELSE Head(s) + SeqSum(Tail(s))

RECURSIVE Filter(_, _)
\* boolean indexing: the elements of s at the positions in keep, in order
Filter(s, keep) ==
    IF s = << >> THEN << >>
    ELSE LET n == Len(s)
             front == Filter(SubSeq(s, 1, n - 1), keep)
         IN IF n \in keep THEN Append(front, s[n]) ELSE front

Elems(s) == {s[i] : i \in DOMAIN s}

\* Series.dropna()
dropna(s) == Filter(s, {i \in DOMAIN s : s[i] # NaN})

\* Series.unique(): distinct values in order of first appearance
unique(s) == Filter(s, {i \in DOMAIN s : \A j \in 1..(i - 1) : s[j] # s[i]})

Occurrences(s, v) == Cardinality({i \in DOMAIN s : s[i] = v})

RECURSIVE InsertDesc(_, _, _)
\* insert position i after every position whose key is >= keys[i]
InsertDesc(sorted, i, keys) ==
    IF sorted = << >> THEN <<i>>
    ELSE IF keys[Head(sorted)] >= keys[i]
         THEN <<Head(sorted)>> \o InsertDesc(Tail(sorted), i, keys)
         ELSE <<i>> \o sorted

RECURSIVE ArgSortDesc(_, _)
\* the positions 1..n by descending key, tied positions in their given order
ArgSortDesc(n, keys) ==
    IF n = 0 THEN << >>
    ELSE InsertDesc(ArgSortDesc(n - 1, keys), n, keys)

\* rows by descending keys[i]
SortDesc(rows, keys) ==
    LET idx == ArgSortDesc(Len(rows), keys)
    IN [j \in DOMAIN idx |-> rows[idx[j]]]

\* Series.value_counts(): missing values are not counted; one row per
\* distinct value, most frequent first
value_counts(s) ==
    LET t == dropna(s)
        u == unique(t)
        n == [i \in DOMAIN u |-> Occurrences(t, u[i])]
    IN SortDesc([i \in DOMAIN u |-> [label |-> u[i], count |-> n[i]]], n)

-----------------------------------------------------------------------------
(* prepare_counts *)

\* the threshold compared with > in place of >=
RelabelStrict(row, min_count) ==
    IF row.count > min_count THEN row.label ELSE OtherLabel

\* lambda row: row[series.name] if row["count"] >= min_count else "Other"
Relabel(row, min_count) ==
    IF row.count >= min_count THEN row.label ELSE OtherLabel

RECURSIVE SortedLabels(_)
\* the group keys, ascending (groupby sorts its keys)
SortedLabels(S) ==
    IF S = {} THEN << >>
    ELSE LET m == CHOOSE x \in S : \A y \in S \ {x} : StrLess(x, y)
         IN <<m>> \o SortedLabels(S \ {m})

\* the keys in order of first appearance (groupby(sort=False))
GroupKeysUnsorted(rows) == unique([i \in DOMAIN rows |-> rows[i].label])

\* an "Other" group that exists whether or not any row carries the label
GroupKeysWithOther(rows) ==
    SortedLabels({rows[i].label : i \in DOMAIN rows} \cup {OtherLabel})

\* the keys in the order groupby yields them: distinct labels, ascending
GroupKeys(rows) == SortedLabels({rows[i].label : i \in DOMAIN rows})

\* the group's last count (["count"].last())
GroupLast(rows, k) ==
    LET g == Filter(rows, {i \in DOMAIN rows : rows[i].label = k})
    IN g[Len(g)].count

\* ["count"].sum() of one group
GroupSum(rows, k) ==
    LET g == Filter(rows, {i \in DOMAIN rows : rows[i].label = k})
    IN SeqSum([i \in DOMAIN g |-> g[i].count])

\* counts.groupby(series.name, as_index=False)["count"].sum()
groupby_sum(rows) ==
    LET keys == GroupKeys(rows)
    IN [i \in DOMAIN keys |->
           [label |-> keys[i], count |-> GroupSum(rows, keys[i])]]

\* the number of rows (counts["count"].count())
TotalRows(rows) == Len(rows)

\* counts["count"].sum()
Total(rows) == SeqSum([i \in DOMAIN rows |-> rows[i].count])

\* the fraction count / total, not scaled by 100
PercentFraction(count, total) == [num |-> count, den |-> total]

\* count / total * 100 as the rational num/den
Percent(count, total) == [num |-> count * 100, den |-> total]

\* counts["percent"] = counts["count"] / counts["count"].sum() * 100
with_percent(rows) ==
    [i \in DOMAIN rows |->
        [label |-> rows[i].label, count |-> rows[i].count,
         percent |-> Percent(rows[i].count, Total(rows))]]

prepare_counts(s, min_count) ==
    LET vc == value_counts(s)
        relabelled == [i \in DOMAIN vc |->
                         [label |-> Relabel(vc[i], min_count),
                          count |-> vc[i].count]]
    IN with_percent(groupby_sum(relabelled))

\* counts.sort_values("percent", ascending=False): every row has the same
\* denominator, so the order by percent is the order by numerator
sort_values_percent_desc(rows) ==
    SortDesc(rows, [i \in DOMAIN rows |-> rows[i].percent.num])

-----------------------------------------------------------------------------
(* The script: one run per user interaction *)

\* the main dropdown lists the question columns; the first is preselected
question_columns == <<"single", "multi">>

\* the columns whose cells hold a delimiter-joined list of options
multi_select_columns == {"multi"}

\* df[col]
Column(d, col) == [i \in DOMAIN d |-> d[i][col]]

RECURSIVE explode(_)
\* Series.explode(): one element per list item; an empty list gives NaN
explode(lists) ==
    IF lists = << >> THEN << >>
    ELSE (IF Head(lists) = << >> THEN <<NaN>> ELSE Head(lists))
         \o explode(Tail(lists))

\* the series counted as loaded, multi-select answers not expanded
MainSeriesNoExplode(d, q) == dropna(Column(d, q))

\* lines 94-98
MainSeries(d, q) ==
    LET s0 == dropna(Column(d, q))
    IN IF q \in multi_select_columns
       THEN explode([i \in DOMAIN s0 |-> str_split(s0[i], DELIM)])
       ELSE s0

\* lines 100-104
MainCounts(s) == with_percent(value_counts(s))

\* lines 134-137
UniqueOptions(d, q, s) ==
    IF q \in multi_select_columns
    THEN unique(dropna(s))
    ELSE unique(dropna(Column(d, q)))

\* lines 139-142: options=["All"] + list(unique_options)
BarOptions(opts) == {AllChoice} \cup Elems(opts)

\* lines 144-149
FilteredDf(d, q, bar) ==
    IF bar = AllChoice THEN d
    ELSE IF q \in multi_select_columns
         THEN Filter(d, {i \in DOMAIN d : str_contains(d[i][q], bar)})
         ELSE Filter(d, {i \in DOMAIN d : d[i][q] = bar})

\* the filter assigned to df itself instead of to the copy
TableAfterFilterInPlace(d, filtered) == filtered

\* lines 144-149: the rows are selected from df.copy() and bound to
\* filtered_df; df is read and never assigned
TableAfterFilter(d, filtered) == d

\* lines 182-183: the City chart's table
CityCounts(fd) == prepare_counts(dropna(Column(fd, "city")), DefaultMinCount)

\* one run of the script with the two dropdowns at q and bar
Run(q, bar) ==
    LET s == MainSeries(df, q)
        fd == FilteredDf(df, q, bar)
    IN /\ selected_question' = q
       /\ selected_bar' = bar
       /\ series' = s
       /\ main_counts' = MainCounts(s)
       /\ unique_options' = UniqueOptions(df, q, s)
       /\ filtered_df' = fd
       /\ counts' = CityCounts(fd)
       /\ df' = TableAfterFilter(df, fd)

\* the user picks a question (lines 70-76); the filter dropdown is labelled
\* with the question (line 140), so it is a new widget showing "All"
SelectQuestion(q) ==
    /\ agg_pc = "idle"
    /\ q # selected_question
    /\ Run(q, AllChoice)
    /\ UNCHANGED agg_vars

\* the user picks a filter value among the options offered (lines 139-142)
SelectBar(bar) ==
    /\ agg_pc = "idle"
    /\ bar \in BarOptions(unique_options)
    /\ bar # selected_bar
    /\ Run(selected_question, bar)
    /\ UNCHANGED agg_vars

-----------------------------------------------------------------------------
(* The Response Table *)

\* the options of the multi-select question; one occurs inside the other
Options == {sX, sXY}

\* a respondent's selection: distinct options in some order
OptionLists ==
    {l \in UNION {[1..n -> Options] : n \in 1..Cardinality(Options)} :
        \A i, j \in DOMAIN l : i # j => l[i] # l[j]}

MultiCells == {NaN} \cup {Join(l, DELIM) : l \in OptionLists}

Rows == [single : {NaN, sA, sB}, multi : MultiCells, city : {NaN, sA}]

Tables == UNION {[1..n -> Rows] : n \in 0..MaxRows}

\* the state after the first run: first question, filter on "All"
InitDashboard(d) ==
    LET q == question_columns[1]
        s == MainSeries(d, q)
    IN /\ df = d
       /\ selected_question = q
       /\ selected_bar = AllChoice
       /\ series = s
       /\ main_counts = MainCounts(s)
       /\ unique_options = UniqueOptions(d, q, s)
       /\ filtered_df = d
       /\ counts = CityCounts(d)

Init ==
    /\ \E d \in Tables : InitDashboard(d)
    /\ arg_series = << >>
    /\ arg_min_count = DefaultMinCount
    /\ ret_counts = << >>
    /\ agg_pc = "idle"

Next ==
    \/ \E q \in Elems(question_columns) : SelectQuestion(q)
    \/ \E bar \in BarOptions(unique_options) : SelectBar(bar)

Spec == Init /\ [][Next]_vars

-----------------------------------------------------------------------------
(* prepare_counts on its own: every series up to MaxLen, every threshold *)

Categories == {sA, sB, sC, OtherLabel}

\* the example of the specification: A five times, B twice, C once
ExampleSeries == <<sA, sA, sA, sA, sA, sB, sB, sC>>

InputSeries ==
    UNION {[1..n -> Categories] : n \in 0..MaxLen} \cup {ExampleSeries}

Thresholds == (1..MaxMinCount) \cup {DefaultMinCount}

\* counts = prepare_counts(series, min_count)
CallPrepareCounts ==
    /\ agg_pc = "ready"
    /\ ret_counts' = prepare_counts(arg_series, arg_min_count)
    /\ agg_pc' = "returned"
    /\ UNCHANGED <<arg_series, arg_min_count>>
    /\ UNCHANGED dash_vars

\* line 301: the Area of Study chart sorts the returned table itself
AreaChartSort ==
    /\ agg_pc = "returned"
    /\ ret_counts' = sort_values_percent_desc(ret_counts)
    /\ agg_pc' = "sorted"
    /\ UNCHANGED <<arg_series, arg_min_count>>
    /\ UNCHANGED dash_vars

InitAgg ==
    /\ InitDashboard(<< >>)
    /\ arg_series \in InputSeries
    /\ arg_min_count \in Thresholds
    /\ ret_counts = << >>
    /\ agg_pc = "ready"

NextAgg == CallPrepareCounts \/ AreaChartSort

SpecAgg == InitAgg /\ [][NextAgg]_vars

-----------------------------------------------------------------------------
(* Properties of prepare_counts (SpecAgg) *)

Returned == agg_pc = "returned"

InputCategories == Elems(arg_series)

InputCount(c) == Occurrences(arg_series, c)

BelowThreshold == {c \in InputCategories : InputCount(c) < arg_min_count}

RowsLabelled(l) == {i \in DOMAIN ret_counts : ret_counts[i].label = l}

ReturnedCountSum == SeqSum([i \in DOMAIN ret_counts |-> ret_counts[i].count])

\* C1: the counts of the returned table sum to the length of the input
\* series: no observation is lost or counted twice.
C1_CountSum == Returned => ReturnedCountSum = Len(arg_series)

C1_Witness ==
    /\ Returned
    /\ Cardinality(BelowThreshold) >= 2
    /\ BelowThreshold # InputCategories
    /\ RowsLabelled(OtherLabel) # {}

\* C2 (as claimed): every category at or above the threshold has a row under
\* its own label with its own count, and the categories below the threshold
\* are merged into exactly one "Other" row whose count is the sum of their
\* counts and of nothing else.
C2_AsClaimed ==
    Returned =>
        /\ \A c \in InputCategories \ BelowThreshold :
              \E i \in DOMAIN ret_counts :
                 /\ ret_counts[i].label = c
                 /\ ret_counts[i].count = InputCount(c)
        /\ BelowThreshold # {} =>
              /\ Cardinality(RowsLabelled(OtherLabel)) = 1
              /\ \A i \in RowsLabelled(OtherLabel) :
                    ret_counts[i].count =
                       Cardinality({k \in DOMAIN arg_series :
                                       arg_series[k] \in BelowThreshold})

\* C3: for a non-empty series the percentages of the returned rows sum to
\* 100: over the common denominator d, the numerators sum to 100 * d.
C3_PercentSum ==
    (Returned /\ arg_series # << >>) =>
        /\ ret_counts # << >>
        /\ \A i \in DOMAIN ret_counts :
              /\ ret_counts[i].percent.den = ret_counts[1].percent.den
              /\ ret_counts[i].percent.den > 0
        /\ SeqSum([i \in DOMAIN ret_counts |-> ret_counts[i].percent.num])
              = 100 * ret_counts[1].percent.den

C3_Witness ==
    /\ Returned
    /\ Len(ret_counts) >= 3
    /\ \E i \in DOMAIN ret_counts : ret_counts[i].count >= 2

\* C4: each returned row's percent is its count / the total count * 100, and
\* the series A,A,A,A,A,B,B,C with threshold 5 gives exactly the rows
\* (A, 5, 62.5%) and (Other, 3, 37.5%).
C4_RowPercent ==
    Returned =>
        /\ \A i \in DOMAIN ret_counts :
              /\ ret_counts[i].percent.den > 0
              /\ ret_counts[i].percent.num * ReturnedCountSum
                    = ret_counts[i].count * 100 * ret_counts[i].percent.den
        /\ (arg_series = ExampleSeries /\ arg_min_count = DefaultMinCount) =>
              /\ Len(ret_counts) = 2
              /\ ret_counts[1].label = sA
              /\ ret_counts[1].count = 5
              /\ 10 * ret_counts[1].percent.num = 625 * ret_counts[1].percent.den
              /\ ret_counts[2].label = OtherLabel
              /\ ret_counts[2].count = 3
              /\ 10 * ret_counts[2].percent.num = 375 * ret_counts[2].percent.den

C4_Witness ==
    /\ Returned
    /\ arg_series = ExampleSeries
    /\ arg_min_count = DefaultMinCount

\* C5 (as claimed): the returned table has a row labelled "Other" only if
\* some input category has a count below the threshold.
C5_AsClaimed ==
    Returned => (RowsLabelled(OtherLabel) # {} => BelowThreshold # {})

\* C5 (amended): the returned table has a row labelled "Other" only if some
\* input category has a count below the threshold or the input itself
\* contains the value "Other".
C5_OtherOnlyIf ==
    Returned =>
        (RowsLabelled(OtherLabel) # {} =>
            (BelowThreshold # {} \/ OtherLabel \in InputCategories))

C5_Witness ==
    /\ Returned
    /\ RowsLabelled(OtherLabel) # {}
    /\ BelowThreshold = {}
    /\ Cardinality(InputCategories) >= 2

\* C6: an empty series gives an empty table, returned as a normal result.
C6_EmptyInput == (Returned /\ arg_series = << >>) => ret_counts = << >>

C6_Witness == Returned /\ arg_series = << >>

\* C10 (as claimed): the returned rows are in non-increasing order of count.
C10_AsClaimed ==
    Returned =>
        \A i, j \in DOMAIN ret_counts :
            i < j => ret_counts[i].count >= ret_counts[j].count

\* C10 (amended): the returned rows are in ascending order of label, each
\* label once; they are in non-increasing order of count only after the
\* caller's own sort by percent.
C10_LabelOrder ==
    /\ Returned =>
          \A i, j \in DOMAIN ret_counts :
              i < j => StrLess(ret_counts[i].label, ret_counts[j].label)
    /\ agg_pc = "sorted" =>
          \A i, j \in DOMAIN ret_counts :
              i < j => ret_counts[i].count >= ret_counts[j].count

C10_Witness ==
    /\ Returned
    /\ \E i, j \in DOMAIN ret_counts :
          i < j /\ ret_counts[i].count < ret_counts[j].count

-----------------------------------------------------------------------------
(* Properties of the script (Spec) *)

\* the options a respondent selected: the list the cell was joined from
Selected(cell) == CHOOSE l \in OptionLists : Join(l, DELIM) = cell

Answered == {i \in DOMAIN df : df[i].multi # NaN}

RespondentsListing(o) == {i \in Answered : o \in Elems(Selected(df[i].multi))}

MainCountOf(o) ==
    LET rows == {i \in DOMAIN main_counts : main_counts[i].label = o}
    IN IF rows = {} THEN 0 ELSE main_counts[CHOOSE i \in rows : TRUE].count

\* C7: for a multi-select question the main chart counts, for each option,
\* the respondents whose answer lists it, and the total number of occurrences
\* is the sum over respondents of the number of options they selected;
\* missing answers are not counted.
C7_ExplodedCounts ==
    selected_question \in multi_select_columns =>
        /\ \A i \in DOMAIN main_counts : main_counts[i].label \in Options
        /\ \A o \in Options :
              MainCountOf(o) = Cardinality(RespondentsListing(o))
        /\ Len(series) =
              SeqSum([i \in DOMAIN df |->
                        IF df[i].multi = NaN THEN 0
                        ELSE Len(Selected(df[i].multi))])
        /\ Total(main_counts) = Len(series)

C7_Witness ==
    /\ selected_question \in multi_select_columns
    /\ Len(df) = 2
    /\ df[1].multi = Join(<<sX, sXY>>, DELIM)
    /\ df[2].multi = sX
    /\ MainCountOf(sX) = 2
    /\ MainCountOf(sXY) = 1

\* the respondents who gave the value bar for the selected question
GaveAnswer(bar) ==
    IF selected_question \in multi_select_columns
    THEN RespondentsListing(bar)
    ELSE {i \in DOMAIN df : df[i].single = bar}

\* C8 (as claimed): with "All" the filtered subset is the whole table; with
\* an offered value it is exactly the respondents who gave that value: equal
\* answer for a single-valued question, the value among the listed options
\* for a multi-select question.
C8_AsClaimed ==
    IF selected_bar = AllChoice
    THEN filtered_df = df
    ELSE filtered_df = Filter(df, GaveAnswer(selected_bar))

====
